---- MODULE Spec2Model ----
(***************************************************************************)
(* Model of lightning_app/utilities/cli_helpers.py:                        *)
(* _retrieve_application_url_and_available_commands, the procedure that    *)
(* resolves an application identifier (url, name, id or None) to the url   *)
(* of a running application and its command manifest.                      *)
(*                                                                         *)
(* One call is a sequential process; its position is pc.  Every outbound   *)
(* call (requests.get, LightningClient(), _get_project, the instance       *)
(* listing) is a step whose answer is drawn from the environment, and is   *)
(* appended to the history variable calls.                                 *)
(*                                                                         *)
(* Optional[str] is modelled as a sequence of length at most one: None is  *)
(* <<>> and the string s is <<s>>.  Response bodies are JSON texts.        *)
(*                                                                         *)
(* The module also models _format_input_env_variables of the same file     *)
(* (SpecFormat) and ColossalAIStrategy.setup_precision_plugin of           *)
(* pytorch_lightning/strategies/colossalai.py (SpecStrategy).  SpecFixed   *)
(* runs the calls of Spec against an external state that does not change.  *)
(***************************************************************************)
EXTENDS Integers, Sequences, FiniteSets, TLC

\* ------------------------------------------------------------------ bounds
MaxApps == 2
MaxWorldApps == 2
MaxEnvs == 2
MaxSetups == 2
MaxOptimizers == 2

\* --------------------------------------------------------------- constants
APP_SERVER_PORT == 7501

None == <<>>
Some(s) == <<s>>

\* The identifiers a caller passes: absent, empty, names, ids, a name in
\* another case, an unknown name, urls, a bare prefix, a non-http scheme.
IdentifierStrings ==
    {"", "a", "foo", "bar", "Bar", "zzz",
     "http://x", "https://y", "http://", "ftp://x"}
Identifiers == {None} \cup {Some(s) : s \in IdentifierStrings}

\* The application records of the directory service.
AppIds == {"a", "b"}
AppNames == {"foo", "bar", "a"}
AppUrls == {"", "http://x", "http://y"}
Lightningapps == [id : AppIds, name : AppNames, url : AppUrls]
Listings == UNION {[1..n -> Lightningapps] : n \in 0..MaxApps}
ProjectIds == {"p1", "p2"}

\* What requests.get can produce: a refused connection or a response.
StatusCodes == {200, 201, 404}
Bodies == {"[]", "[1]"}
Responses == [connected : {TRUE}, status_code : StatusCodes, text : Bodies]
ConnectionRefused == [connected |-> FALSE, status_code |-> 0, text |-> ""]
GetOutcomes == Responses \cup {ConnectionRefused}

VARIABLES
    world,                  \* the external state
    kept,                   \* an earlier call of this behaviour and its outcome
    pc,                     \* position of the call
    app_id_or_name_or_url,  \* the argument
    failed_locally,         \* line 66
    project,                \* line 81, None before
    lightningapps,          \* line 82, list_lightningapps.lightningapps
    lightningapp_names,     \* line 84
    i,                      \* position of the for loop of line 89
    outcome,                \* what the call returned or raised, None before
    calls,                  \* history of the outbound calls of this call
    env_pc,                 \* position of a call of _format_input_env_variables
    env_list,               \* its argument
    env_k,                  \* position of the for loop of line 26
    env_vars_dict,          \* line 25
    env_outcome,            \* what it returned or raised, None before
    use_chunk,              \* ColossalAIStrategy.use_chunk
    chunk_size,             \* ColossalAIStrategy.chunk_size
    model,                  \* ColossalAIStrategy.model, None before connect
    optimizers,             \* ColossalAIStrategy.optimizers
    module_zero,            \* the _colossalai_zero attribute of each LightningModule
    zeroddps,               \* the ZeroDDP objects created so far
    chunk_managers,         \* the chunk sizes of the ChunkManagers created so far
    setup_log               \* the calls of setup_precision_plugin and how they ended

retrieveVars == <<world, kept, pc, app_id_or_name_or_url, failed_locally, project,
                  lightningapps, lightningapp_names, i, outcome, calls>>
formatVars == <<env_pc, env_list, env_k, env_vars_dict, env_outcome>>
strategyVars == <<use_chunk, chunk_size, model, optimizers, module_zero, zeroddps,
                  chunk_managers, setup_log>>
others == <<formatVars, strategyVars>>

vars == <<retrieveVars, formatVars, strategyVars>>

\* ----------------------------------------------------------- pure helpers
\* str.startswith
startswith(s, prefix) ==
    /\ Len(s) >= Len(prefix)
    /\ SubSeq(s, 1, Len(prefix)) = prefix

\* Python truth value of an Optional[str]: None and "" are false.
Truthy(id) == id # None /\ id[1] # ""

\* str == Optional[str]
StrEq(s, id) == id # None /\ s = id[1]

\* resp.json() on the JSON texts of Bodies
Json(text) ==
    CASE text = "[]" -> <<>>
      [] text = "[1]" -> <<1>>

\* url + "/api/v1/commands"
CommandsUrl(url) == url \o "/api/v1/commands"

\* mutant: the port is left out of the local url
LocalUrl_without_port == "http://localhost"

\* f"http://localhost:{APP_SERVER_PORT}"
LocalUrl == "http://localhost:" \o ToString(APP_SERVER_PORT)

\* mutant: only the https prefix is recognised
_is_url_https_only(id) == id # None /\ startswith(id[1], "https://")

_is_url(id) ==
    id # None /\ (startswith(id[1], "https://") \/ startswith(id[1], "http://"))

\* mutant: every 2xx status counts as success
IsSuccess_any_2xx(status_code) == status_code \in 200..299

\* resp.status_code != 200 is the failure test of lines 61, 72 and 94
IsSuccess(status_code) == status_code = 200

\* mutant: the flag of the local attempt is ignored
CloudEvaluated_ignores_flag(id, failed) == Truthy(id)

\* the condition of line 79
CloudEvaluated(id, failed) == Truthy(id) \/ failed

\* mutant: only the name is compared
Matches_name_only(lightningapp, id) == StrEq(lightningapp.name, id)

\* the condition of line 90
Matches(lightningapp, id) == StrEq(lightningapp.id, id) \/ StrEq(lightningapp.name, id)

\* mutant: the ids are collected instead of the names
Names_ids(apps) == [k \in 1..Len(apps) |-> apps[k].id]

\* the comprehension of line 84
Names(apps) == [k \in 1..Len(apps) |-> apps[k].name]

\* ------------------------------------------------------- results and log
Return(url, manifest) == [kind |-> "return", value |-> <<url, manifest>>]
Raise(error, found) == [kind |-> "raise", error |-> error, found |-> found]

\* f"The server didn't process the request properly. Found {resp.json()}"
ServerError(resp) == Raise("The server didn't process the request properly.", Json(resp.text))
\* f"Provide an application name, id or url with --app_id=X. Found {names}"
ProvideError(names) == Raise("Provide an application name, id or url with --app_id=X.", names)
\* "The application is starting. Try in a few moments."
StartingError == Raise("The application is starting. Try in a few moments.", <<>>)
\* requests.exceptions.ConnectionError leaving the function
ConnectionError == Raise("ConnectionError", <<>>)

Get(url, got) == [op |-> "GET", arg |-> url, got |-> got]
Dir(op, arg, got) == [op |-> op, arg |-> arg, got |-> got]

\* the three lines that follow every connected requests.get
AfterGet(url, resp) ==
    IF ~IsSuccess(resp.status_code)
    THEN ServerError(resp)
    ELSE Return(Some(url), Some(Json(resp.text)))

\* ---------------------------------------------------- external state
\* The external state a call reads.  world = None is the open world: every
\* answer is possible at every outbound call.  world = Some(w) is a fixed
\* world: every url has one answer to requests.get, _get_project returns
\* one project and the directory service returns one listing.
Urls ==
    {LocalUrl} \cup {s \in IdentifierStrings : _is_url(Some(s))} \cup (AppUrls \ {""})

WorldOutcomes ==
    {ConnectionRefused,
     [connected |-> TRUE, status_code |-> 200, text |-> "[1]"],
     [connected |-> TRUE, status_code |-> 404, text |-> "[]"]}
WorldApps ==
    {[id |-> "a", name |-> "foo", url |-> ""],
     [id |-> "b", name |-> "a", url |-> "http://x"],
     [id |-> "a", name |-> "bar", url |-> "http://y"]}
WorldListings == UNION {[1..n -> WorldApps] : n \in 0..MaxWorldApps}
\* one answer for the local url, one for http://x, one for every other url
FixedWorlds ==
    {[get |-> [u \in Urls |-> IF u = LocalUrl THEN local
                              ELSE IF u = "http://x" THEN x ELSE other],
      project |-> "p1",
      listing |-> listing] :
        local \in WorldOutcomes, x \in WorldOutcomes, other \in WorldOutcomes,
        listing \in WorldListings}

\* what the outbound calls can answer
GetAnswers(url) == IF world = None THEN GetOutcomes ELSE {world[1].get[url]}
ProjectAnswers == IF world = None THEN ProjectIds ELSE {world[1].project}
ListingAnswers == IF world = None THEN Listings ELSE {world[1].listing}

\* ---------------------------------------------------------------- actions
\* the state of a process that has not called yet
NotCalled ==
    /\ kept = None
    /\ pc = "idle"
    /\ app_id_or_name_or_url = None
    /\ failed_locally = FALSE
    /\ project = None
    /\ lightningapps = <<>>
    /\ lightningapp_names = <<>>
    /\ i = 0
    /\ outcome = None
    /\ calls = <<>>
    /\ env_pc = "idle"
    /\ env_list = <<>>
    /\ env_k = 0
    /\ env_vars_dict = <<>>
    /\ env_outcome = None

\* the LightningModules a strategy can be connected to
Modules == {"m1", "m2"}

\* ColossalAIStrategy.__init__, lines 107-166
Constructed(use, size) ==
    /\ use_chunk = use
    /\ chunk_size = size
    /\ model = None
    /\ optimizers = <<>>
    /\ module_zero = [m \in Modules |-> None]
    /\ zeroddps = {}
    /\ chunk_managers = <<>>
    /\ setup_log = <<>>

Init == world = None /\ NotCalled /\ Constructed(TRUE, None)

InitFixed == world \in {Some(w) : w \in FixedWorlds} /\ NotCalled /\ Constructed(TRUE, None)

\* a call that has ended, as remembered for a later comparison
Ended == Some([id |-> app_id_or_name_or_url, outcome |-> outcome])

\* mutant: failed_locally outlives the call, as a module-level flag would
Call_keeps_flag ==
    /\ pc \in {"idle", "done"}
    /\ \E id \in Identifiers :
       /\ pc' = "start"
       /\ app_id_or_name_or_url' = id
       /\ UNCHANGED failed_locally
       /\ project' = None
       /\ lightningapps' = <<>>
       /\ lightningapp_names' = <<>>
       /\ i' = 0
       /\ outcome' = None
       /\ calls' = <<>>
    /\ kept' \in (IF world # None /\ pc = "done" THEN {kept, Ended} ELSE {kept})
    /\ UNCHANGED <<world, others>>

\* a caller enters the function with some argument
Call ==
    /\ pc \in {"idle", "done"}
    /\ \E id \in Identifiers :
       /\ pc' = "start"
       /\ app_id_or_name_or_url' = id
       /\ failed_locally' = FALSE
       /\ project' = None
       /\ lightningapps' = <<>>
       /\ lightningapp_names' = <<>>
       /\ i' = 0
       /\ outcome' = None
       /\ calls' = <<>>
    /\ kept' \in (IF world # None /\ pc = "done" THEN {kept, Ended} ELSE {kept})
    /\ UNCHANGED <<world, others>>

\* 1: lines 57-63
DirectUrl ==
    /\ pc = "start"
    /\ _is_url(app_id_or_name_or_url)
    /\ \E got \in GetAnswers(app_id_or_name_or_url[1]) :
       /\ LET url == app_id_or_name_or_url[1] IN
          /\ calls' = Append(calls, Get(CommandsUrl(url), got))
          /\ outcome' = Some(IF got.connected THEN AfterGet(url, got) ELSE ConnectionError)
       /\ pc' = "done"
       /\ UNCHANGED <<app_id_or_name_or_url, failed_locally, project, lightningapps,
                      lightningapp_names, i>>
    /\ UNCHANGED <<world, kept, others>>

\* mutant: the except clause catches every exception, not only ConnectionError
LocalInstance_catches_all ==
    /\ pc = "start"
    /\ ~_is_url(app_id_or_name_or_url)
    /\ app_id_or_name_or_url = None
    /\ \E got \in GetAnswers(LocalUrl) :
       /\ calls' = Append(calls, Get(CommandsUrl(LocalUrl), got))
       /\ IF got.connected /\ IsSuccess(got.status_code)
          THEN /\ outcome' = Some(AfterGet(LocalUrl, got))
               /\ pc' = "done"
               /\ UNCHANGED failed_locally
          ELSE /\ failed_locally' = TRUE
               /\ pc' = "cloud"
               /\ UNCHANGED outcome
       /\ UNCHANGED <<app_id_or_name_or_url, project, lightningapps, lightningapp_names, i>>
    /\ UNCHANGED <<world, kept, others>>

\* 2: lines 66-76, the identifier is None
LocalInstance ==
    /\ pc = "start"
    /\ ~_is_url(app_id_or_name_or_url)
    /\ app_id_or_name_or_url = None
    /\ \E got \in GetAnswers(LocalUrl) :
       /\ calls' = Append(calls, Get(CommandsUrl(LocalUrl), got))
       /\ IF got.connected
          THEN /\ outcome' = Some(AfterGet(LocalUrl, got))
               /\ pc' = "done"
               /\ UNCHANGED failed_locally
          ELSE /\ failed_locally' = TRUE
               /\ pc' = "cloud"
               /\ UNCHANGED outcome
       /\ UNCHANGED <<app_id_or_name_or_url, project, lightningapps, lightningapp_names, i>>
    /\ UNCHANGED <<world, kept, others>>

\* 2: lines 66-68, an identifier was given
SkipLocal ==
    /\ pc = "start"
    /\ ~_is_url(app_id_or_name_or_url)
    /\ app_id_or_name_or_url # None
    /\ pc' = "cloud"
    /\ UNCHANGED <<app_id_or_name_or_url, failed_locally, project, lightningapps,
                   lightningapp_names, i, outcome, calls>>
    /\ UNCHANGED <<world, kept, others>>

\* 3: lines 79-80
NewClient ==
    /\ pc = "cloud"
    /\ CloudEvaluated(app_id_or_name_or_url, failed_locally)
    /\ calls' = Append(calls, Dir("LightningClient", "", <<>>))
    /\ pc' = "project"
    /\ UNCHANGED <<app_id_or_name_or_url, failed_locally, project, lightningapps,
                   lightningapp_names, i, outcome>>
    /\ UNCHANGED <<world, kept, others>>

\* lines 79 and 97: the cloud is not evaluated
NoCloud ==
    /\ pc = "cloud"
    /\ ~CloudEvaluated(app_id_or_name_or_url, failed_locally)
    /\ outcome' = Some(Return(None, None))
    /\ pc' = "done"
    /\ UNCHANGED <<app_id_or_name_or_url, failed_locally, project, lightningapps,
                   lightningapp_names, i, calls>>
    /\ UNCHANGED <<world, kept, others>>

\* line 81
GetProject ==
    /\ pc = "project"
    /\ \E project_id \in ProjectAnswers :
       /\ project' = Some(project_id)
       /\ calls' = Append(calls, Dir("_get_project", "", project_id))
       /\ pc' = "list"
       /\ UNCHANGED <<app_id_or_name_or_url, failed_locally, lightningapps,
                      lightningapp_names, i, outcome>>
    /\ UNCHANGED <<world, kept, others>>

\* lines 82-84
ListInstances ==
    /\ pc = "list"
    /\ \E listing \in ListingAnswers :
       /\ lightningapps' = listing
       /\ lightningapp_names' = Names(listing)
       /\ calls' = Append(calls, Dir("list_lightningapp_instances", project[1], listing))
       /\ pc' = "listed"
       /\ UNCHANGED <<app_id_or_name_or_url, failed_locally, project, i, outcome>>
    /\ UNCHANGED <<world, kept, others>>

\* mutant: the check of lines 86-87 is left out
CheckProvided_never_raises ==
    /\ pc = "listed"
    /\ i' = 1
    /\ pc' = "scan"
    /\ UNCHANGED <<app_id_or_name_or_url, failed_locally, project, lightningapps,
                   lightningapp_names, outcome, calls>>
    /\ UNCHANGED <<world, kept, others>>

\* lines 86-87, and the entry of the loop of line 89
CheckProvided ==
    /\ pc = "listed"
    /\ IF ~Truthy(app_id_or_name_or_url)
       THEN /\ outcome' = Some(ProvideError(lightningapp_names))
            /\ pc' = "done"
            /\ UNCHANGED i
       ELSE /\ i' = 1
            /\ pc' = "scan"
            /\ UNCHANGED outcome
    /\ UNCHANGED <<app_id_or_name_or_url, failed_locally, project, lightningapps,
                   lightningapp_names, calls>>
    /\ UNCHANGED <<world, kept, others>>

\* lines 89-90: the next element does not match
ScanNext ==
    /\ pc = "scan"
    /\ i <= Len(lightningapps)
    /\ ~Matches(lightningapps[i], app_id_or_name_or_url)
    /\ i' = i + 1
    /\ UNCHANGED <<pc, app_id_or_name_or_url, failed_locally, project, lightningapps,
                   lightningapp_names, outcome, calls>>
    /\ UNCHANGED <<world, kept, others>>

\* mutant: an element without url is skipped and the scan goes on
Starting_skips ==
    /\ pc = "scan"
    /\ i <= Len(lightningapps)
    /\ Matches(lightningapps[i], app_id_or_name_or_url)
    /\ lightningapps[i].url = ""
    /\ i' = i + 1
    /\ UNCHANGED <<pc, app_id_or_name_or_url, failed_locally, project, lightningapps,
                   lightningapp_names, outcome, calls>>
    /\ UNCHANGED <<world, kept, others>>

\* lines 90-92: the element matches and has no url yet
Starting ==
    /\ pc = "scan"
    /\ i <= Len(lightningapps)
    /\ Matches(lightningapps[i], app_id_or_name_or_url)
    /\ lightningapps[i].url = ""
    /\ outcome' = Some(StartingError)
    /\ pc' = "done"
    /\ UNCHANGED <<app_id_or_name_or_url, failed_locally, project, lightningapps,
                   lightningapp_names, i, calls>>
    /\ UNCHANGED <<world, kept, others>>

\* lines 90-96: the element matches and is queried
QueryInstance ==
    /\ pc = "scan"
    /\ i <= Len(lightningapps)
    /\ Matches(lightningapps[i], app_id_or_name_or_url)
    /\ lightningapps[i].url # ""
    /\ \E got \in GetAnswers(lightningapps[i].url) :
       /\ LET url == lightningapps[i].url IN
          /\ calls' = Append(calls, Get(CommandsUrl(url), got))
          /\ outcome' = Some(IF got.connected THEN AfterGet(url, got) ELSE ConnectionError)
       /\ pc' = "done"
       /\ UNCHANGED <<app_id_or_name_or_url, failed_locally, project, lightningapps,
                      lightningapp_names, i>>
    /\ UNCHANGED <<world, kept, others>>

\* mutant: an identifier that matches nothing is reported as an error
NotFound_raises ==
    /\ pc = "scan"
    /\ i > Len(lightningapps)
    /\ outcome' = Some(ProvideError(lightningapp_names))
    /\ pc' = "done"
    /\ UNCHANGED <<app_id_or_name_or_url, failed_locally, project, lightningapps,
                   lightningapp_names, i, calls>>
    /\ UNCHANGED <<world, kept, others>>

\* lines 89 and 97: the loop ends without a match
NotFound ==
    /\ pc = "scan"
    /\ i > Len(lightningapps)
    /\ outcome' = Some(Return(None, None))
    /\ pc' = "done"
    /\ UNCHANGED <<app_id_or_name_or_url, failed_locally, project, lightningapps,
                   lightningapp_names, i, calls>>
    /\ UNCHANGED <<world, kept, others>>

Next ==
    \/ Call
    \/ DirectUrl
    \/ LocalInstance
    \/ SkipLocal
    \/ NewClient
    \/ NoCloud
    \/ GetProject
    \/ ListInstances
    \/ CheckProvided
    \/ ScanNext
    \/ Starting
    \/ QueryInstance
    \/ NotFound

Spec == Init /\ [][Next]_vars

\* the same calls against an external state that does not change
SpecFixed == InitFixed /\ [][Next]_vars

TypeOK ==
    /\ world # None => world[1].listing \in WorldListings
    /\ pc \in {"idle", "start", "cloud", "project", "list", "listed", "scan", "done"}
    /\ app_id_or_name_or_url \in Identifiers
    /\ failed_locally \in BOOLEAN
    /\ lightningapps \in Listings \cup WorldListings
    /\ i >= 0
    /\ (pc = "done") = (outcome # None)

\* ------------------------------------------- _format_input_env_variables
\* The entries a caller passes: well formed, a repeated name, an empty
\* value, names with a character outside the class (inside, first, a
\* blank), no "=", an empty name, two "=".
EnvStrings ==
    {"foo=bar", "foo=baz", "A_1=", "a-b=1", "-a=1", "a b=x", "foo", "=bar", "a=b=c"}
EnvLists == UNION {[1..n -> EnvStrings] : n \in 0..MaxEnvs}

\* the characters of the class [0-9a-zA-Z_]
WordChars ==
    {"0", "1", "2", "3", "4", "5", "6", "7", "8", "9", "_",
     "a", "b", "c", "d", "e", "f", "g", "h", "i", "j", "k", "l", "m",
     "n", "o", "p", "q", "r", "s", "t", "u", "v", "w", "x", "y", "z",
     "A", "B", "C", "D", "E", "F", "G", "H", "I", "J", "K", "L", "M",
     "N", "O", "P", "Q", "R", "S", "T", "U", "V", "W", "X", "Y", "Z"}

CharAt(s, k) == SubSeq(s, k, k)

\* str.split(sep) for a separator of one character
RECURSIVE split(_, _)
split(s, sep) ==
    IF \A k \in 1..Len(s) : CharAt(s, k) # sep
    THEN <<s>>
    ELSE LET k == CHOOSE k \in 1..Len(s) :
                     /\ CharAt(s, k) = sep
                     /\ \A j \in 1..(k - 1) : CharAt(s, j) # sep
         IN <<SubSeq(s, 1, k - 1)>> \o split(SubSeq(s, k + 1, Len(s)), sep)

\* re.match(r"[0-9a-zA-Z_]+", s): the longest run of class characters that
\* starts at the first character, None when that run is empty
re_match_word(s) ==
    LET n == CHOOSE n \in 0..Len(s) :
                 /\ \A k \in 1..n : CharAt(s, k) \in WordChars
                 /\ n < Len(s) => CharAt(s, n + 1) \notin WordChars
    IN IF n >= 1 THEN Some(SubSeq(s, 1, n)) ELSE None

InvalidFormat(env_str) ==
    Raise("Invalid format of environment variable", env_str)
Duplicated(var_name) ==
    Raise("Environment variable is duplicated. Please only include it once.", var_name)
NotValidName(var_name) ==
    Raise("ValueError: Environment variable is not a valid name.", var_name)

\* a caller enters the function with some list; line 25
FormatCall ==
    /\ env_pc \in {"idle", "done"}
    /\ \E list \in EnvLists : env_list' = list
    /\ env_vars_dict' = <<>>
    /\ env_k' = 1
    /\ env_outcome' = None
    /\ env_pc' = "loop"
    /\ UNCHANGED <<retrieveVars, strategyVars>>

\* lines 26-44: one pass of the loop
FormatEntry ==
    /\ env_pc = "loop"
    /\ env_k <= Len(env_list)
    /\ LET env_str == env_list[env_k]
           var_parts == split(env_str, "=")
       IN IF Len(var_parts) # 2 \/ var_parts[1] = ""
          THEN /\ env_outcome' = Some(InvalidFormat(env_str))
               /\ env_pc' = "done"
               /\ UNCHANGED <<env_k, env_vars_dict>>
          ELSE LET var_name == var_parts[1]
                   value == var_parts[2]
               IN IF var_name \in DOMAIN env_vars_dict
                  THEN /\ env_outcome' = Some(Duplicated(var_name))
                       /\ env_pc' = "done"
                       /\ UNCHANGED <<env_k, env_vars_dict>>
                  ELSE IF re_match_word(var_name) = None
                  THEN /\ env_outcome' = Some(NotValidName(var_name))
                       /\ env_pc' = "done"
                       /\ UNCHANGED <<env_k, env_vars_dict>>
                  ELSE /\ env_vars_dict' = (var_name :> value) @@ env_vars_dict
                       /\ env_k' = env_k + 1
                       /\ UNCHANGED <<env_pc, env_outcome>>
    /\ UNCHANGED <<env_list, retrieveVars, strategyVars>>

\* line 45
FormatReturn ==
    /\ env_pc = "loop"
    /\ env_k > Len(env_list)
    /\ env_outcome' = Some([kind |-> "return", value |-> env_vars_dict])
    /\ env_pc' = "done"
    /\ UNCHANGED <<env_list, env_k, env_vars_dict, retrieveVars, strategyVars>>

NextFormat == FormatCall \/ FormatEntry \/ FormatReturn

SpecFormat == Init /\ [][NextFormat]_vars

\* --------------------------------- ColossalAIStrategy.setup_precision_plugin
\* what ChunkManager.search_chunk_size returns
SearchedChunkSize == 32
ChunkSizes == {None, Some(64)}
OptimizerKinds == {"CPUAdam", "HybridAdam", "SGD"}
OptimizerLists == UNION {[1..n -> OptimizerKinds] : n \in 0..MaxOptimizers}

LightningModule(m) == [kind |-> "LightningModule", name |-> m, n |-> 0]
ZeroDDP(m, k) == [kind |-> "ZeroDDP", name |-> m, n |-> k]

\* mutant: the attribute is looked up on an object that never carries it
hasattr_colossalai_zero_never(pl_module) == FALSE

\* hasattr(pl_module, "_colossalai_zero"), line 228
hasattr_colossalai_zero(pl_module) ==
    pl_module.kind = "LightningModule" /\ module_zero[pl_module.name] # None

\* isinstance(optimizer, (CPUAdam, HybridAdam)), line 221
IsAdam(optimizer) == optimizer \in {"CPUAdam", "HybridAdam"}

\* lines 229-234
ChosenChunkSize ==
    IF use_chunk
    THEN (IF chunk_size # None /\ chunk_size[1] # 0 THEN chunk_size ELSE Some(SearchedChunkSize))
    ELSE None

InitStrategy ==
    /\ world = None
    /\ NotCalled
    /\ \E use \in BOOLEAN, size \in ChunkSizes : Constructed(use, size)

\* the trainer connects the strategy to a LightningModule
Connect ==
    /\ \E m \in Modules : model' = Some(LightningModule(m))
    /\ UNCHANGED <<use_chunk, chunk_size, optimizers, module_zero, zeroddps,
                   chunk_managers, setup_log>>
    /\ UNCHANGED <<retrieveVars, formatVars>>

\* line 275: the optimizers the LightningModule configures
SetupOptimizers ==
    /\ \E list \in OptimizerLists : optimizers' = list
    /\ UNCHANGED <<use_chunk, chunk_size, model, module_zero, zeroddps,
                   chunk_managers, setup_log>>
    /\ UNCHANGED <<retrieveVars, formatVars>>

Ended13(is_training, result) == [is_training |-> is_training, result |-> result]

\* lines 214-251, on a connected strategy
SetupPrecisionPlugin ==
    /\ model # None
    /\ Len(setup_log) < MaxSetups
    /\ \E is_training \in BOOLEAN :
         LET pl_module == model[1]
             reject(result) ==
                 /\ setup_log' = Append(setup_log, Ended13(is_training, result))
                 /\ UNCHANGED <<model, optimizers, module_zero, zeroddps, chunk_managers>>
             wrapped(m) == IF is_training THEN <<"ZeroOptimizer">> ELSE optimizers
         IN IF is_training /\ Len(optimizers) > 1
            THEN reject("MisconfigurationException: only supports single Optimizer")
            ELSE IF is_training /\ Len(optimizers) = 0
            THEN reject("IndexError")
            ELSE IF is_training /\ ~IsAdam(optimizers[1])
            THEN reject("MisconfigurationException: only supports CPUAdam and HybridAdam")
            ELSE IF ~hasattr_colossalai_zero(pl_module)
            THEN /\ chunk_managers' = Append(chunk_managers, ChosenChunkSize)
                 /\ IF pl_module.kind # "LightningModule"
                    THEN /\ setup_log' = Append(setup_log, Ended13(is_training, "AssertionError"))
                         /\ UNCHANGED <<model, optimizers, module_zero, zeroddps>>
                    ELSE LET zero == ZeroDDP(pl_module.name, Cardinality(zeroddps) + 1) IN
                         /\ model' = Some(zero)
                         /\ zeroddps' = zeroddps \cup {zero}
                         /\ module_zero' = [module_zero EXCEPT ![pl_module.name] = Some(zero)]
                         /\ optimizers' = wrapped(zero)
                         /\ setup_log' = Append(setup_log, Ended13(is_training, "wrapped"))
            ELSE /\ model' = module_zero[pl_module.name]
                 /\ optimizers' = wrapped(module_zero[pl_module.name][1])
                 /\ setup_log' = Append(setup_log, Ended13(is_training, "reused"))
                 /\ UNCHANGED <<module_zero, zeroddps, chunk_managers>>
    /\ UNCHANGED <<use_chunk, chunk_size>>
    /\ UNCHANGED <<retrieveVars, formatVars>>

NextStrategy == Connect \/ SetupOptimizers \/ SetupPrecisionPlugin

SpecStrategy == InitStrategy /\ [][NextStrategy]_vars

\* ------------------------------------------------------------ properties
Suffix == "/api/v1/commands"
ServerMessage == "The server didn't process the request properly."
ProvideMessage == "Provide an application name, id or url with --app_id=X."
StartingMessage == "The application is starting. Try in a few moments."

HasHttpPrefix(id) ==
    /\ id # None
    /\ \E p \in {"http://", "https://"} :
          Len(id[1]) >= Len(p) /\ SubSeq(id[1], 1, Len(p)) = p

IsGet(c) == c.op = "GET"
IsDir(c) == c.op # "GET"
IsList(c) == c.op = "list_lightningapp_instances"
GetCalls == SelectSeq(calls, IsGet)
DirCalls == SelectSeq(calls, IsDir)
ListCalls == SelectSeq(calls, IsList)
Finished == pc = "done" /\ outcome # None

\* the call had no identifier and its first outbound call was a GET
LocalGetDone ==
    /\ app_id_or_name_or_url = None
    /\ Len(calls) >= 1
    /\ calls[1].op = "GET"
LocalGetRefused == LocalGetDone /\ ~calls[1].got.connected
LocalGetStatus(codes) ==
    LocalGetDone /\ calls[1].got.connected /\ calls[1].got.status_code \in codes

\* the listing the directory service returned to this call
Listed == Len(ListCalls) = 1
Listing == ListCalls[1].got
EqualsIdOrName(app, s) == app.id = s \/ app.name = s
IsFirstMatch(k) ==
    /\ k \in 1..Len(Listing)
    /\ EqualsIdOrName(Listing[k], app_id_or_name_or_url[1])
    /\ \A j \in 1..(k - 1) : ~EqualsIdOrName(Listing[j], app_id_or_name_or_url[1])

\* C1: a call whose identifier begins with http:// or https:// never makes
\* a directory-service call, and when it ends it has made exactly one
\* outbound call, a GET to identifier + "/api/v1/commands", whatever the
\* GET produced.
C1_DirectUrlOneGetNoDirectory ==
    HasHttpPrefix(app_id_or_name_or_url) =>
        /\ DirCalls = <<>>
        /\ Len(GetCalls) <= 1
        /\ Finished =>
              /\ Len(calls) = 1
              /\ calls[1].op = "GET"
              /\ calls[1].arg = app_id_or_name_or_url[1] \o Suffix

C1_Witness ==
    /\ Finished
    /\ app_id_or_name_or_url = Some("http://")
    /\ Len(calls) = 1
    /\ calls[1].got.connected
    /\ calls[1].got.status_code = 404

\* C2: when a call ends, the directory service was consulted (client,
\* project, listing) if the identifier is any string without http(s)
\* prefix, or if there was no identifier and the local GET was refused.
C2_CloudForEveryNonUrlString ==
    (Finished /\ \/ (app_id_or_name_or_url # None /\ ~HasHttpPrefix(app_id_or_name_or_url))
                 \/ LocalGetRefused)
    => /\ Len(ListCalls) >= 1
       /\ \E k \in 1..Len(calls) : calls[k].op = "LightningClient"
       /\ \E k \in 1..Len(calls) : calls[k].op = "_get_project"

\* C3: with no identifier, a local GET answered with a status other than
\* 200 ends the call with the server error, with no further outbound call
\* and the flag unset; the flag is set, and the directory consulted without
\* identifier, only after a refused local GET.
C3_LocalErrorDoesNotFallBack ==
    /\ LocalGetStatus(StatusCodes \ {200}) =>
          /\ Finished
          /\ outcome[1].kind = "raise"
          /\ outcome[1].error = ServerMessage
          /\ Len(calls) = 1
          /\ ~failed_locally
    /\ failed_locally => LocalGetRefused
    /\ (app_id_or_name_or_url = None /\ DirCalls # <<>>) => LocalGetRefused

C3_Witness ==
    /\ Finished
    /\ LocalGetStatus({404})
    /\ outcome[1].kind = "raise"
    /\ DirCalls = <<>>

\* C4: with no identifier and a refused local GET, the call never lists the
\* instances twice, and when it ends it has listed them exactly once, after
\* the project lookup and for the project that lookup returned.
C4_ExactlyOneListing ==
    LocalGetRefused =>
        /\ Len(ListCalls) <= 1
        /\ Finished =>
              /\ Len(ListCalls) = 1
              /\ \E j, k \in 1..Len(calls) :
                    /\ j < k
                    /\ calls[j].op = "_get_project"
                    /\ IsList(calls[k])
                    /\ calls[k].arg = calls[j].got

C4_Witness ==
    /\ Finished
    /\ LocalGetRefused
    /\ Len(ListCalls) = 1

\* C5: with no identifier and a refused local GET, the call ends by raising
\* the "Provide an application name" error whose list is the names of the
\* returned listing in listing order, and the local GET is its only GET.
C5_ProvideErrorListsNames ==
    (Finished /\ LocalGetRefused) =>
        /\ Listed
        /\ outcome[1].kind = "raise"
        /\ outcome[1].error = ProvideMessage
        /\ Len(outcome[1].found) = Len(Listing)
        /\ \A k \in 1..Len(Listing) : outcome[1].found[k] = Listing[k].name
        /\ Len(GetCalls) = 1

C5_Witness ==
    /\ Finished
    /\ LocalGetRefused
    /\ Listed
    /\ Len(Listing) = 2
    /\ Listing[1].url # ""
    /\ outcome[1].found = <<"foo", "bar">>

\* C6: with no identifier and a local GET answered 200, the call returns
\* ("http://localhost:7501", parsed body), its only outbound call being the
\* GET to http://localhost:7501/api/v1/commands.
C6_LocalSuccess ==
    LocalGetStatus({200}) =>
        /\ Finished
        /\ outcome[1] = Return(Some("http://localhost:7501"), Some(Json(calls[1].got.text)))
        /\ Len(calls) = 1
        /\ calls[1].arg = "http://localhost:7501/api/v1/commands"

C6_Witness ==
    /\ Finished
    /\ LocalGetStatus({200})
    /\ calls[1].got.text = "[1]"
    /\ outcome[1].kind = "return"

\* C7: when a call with an identifier has listed the instances and ends,
\* and k is the first position of the listing whose id or name equals the
\* identifier, then the scan stopped at k, every GET of the call went to
\* the url of element k, and a 200 answer makes the call return
\* (url of element k, parsed body).
C7_FirstMatchWins ==
    (Finished /\ app_id_or_name_or_url # None /\ Listed) =>
        \A k \in 1..Len(Listing) :
            IsFirstMatch(k) =>
                /\ i = k
                /\ \A g \in 1..Len(GetCalls) : GetCalls[g].arg = Listing[k].url \o Suffix
                /\ Listing[k].url # "" =>
                      /\ Len(GetCalls) = 1
                      /\ (GetCalls[1].got.connected /\ GetCalls[1].got.status_code = 200) =>
                            outcome[1] = Return(Some(Listing[k].url),
                                                Some(Json(GetCalls[1].got.text)))

C7_Witness ==
    /\ Finished
    /\ app_id_or_name_or_url = Some("a")
    /\ Listed
    /\ Len(Listing) = 2
    /\ Listing[1] = [id |-> "b", name |-> "a", url |-> "http://y"]
    /\ Listing[2] = [id |-> "a", name |-> "foo", url |-> "http://x"]
    /\ outcome[1].kind = "return"
    /\ outcome[1].value[1] = Some("http://y")

\* C8: when the first element of the listing whose id or name equals the
\* identifier has the empty url, the call ends with the "application is
\* starting" error and has made no GET, whatever follows in the listing.
C8_FirstMatchWithoutUrl ==
    (Finished /\ app_id_or_name_or_url # None /\ Listed) =>
        \A k \in 1..Len(Listing) :
            (IsFirstMatch(k) /\ Listing[k].url = "") =>
                /\ outcome[1].kind = "raise"
                /\ outcome[1].error = StartingMessage
                /\ GetCalls = <<>>

C8_Witness ==
    /\ Finished
    /\ app_id_or_name_or_url = Some("a")
    /\ Listed
    /\ Len(Listing) = 2
    /\ Listing[1] = [id |-> "a", name |-> "foo", url |-> ""]
    /\ Listing[2] = [id |-> "b", name |-> "a", url |-> "http://x"]
    /\ outcome[1].kind = "raise"

\* C9: a call with an identifier that has no http(s) prefix, and that no
\* listed instance equals by id or by name, returns (None, None) and has
\* made no GET.
C9_NotFoundIsSilent ==
    (/\ Finished
     /\ app_id_or_name_or_url # None
     /\ ~HasHttpPrefix(app_id_or_name_or_url)
     /\ \A k \in 1..Len(lightningapps) :
           ~EqualsIdOrName(lightningapps[k], app_id_or_name_or_url[1]))
    => /\ outcome[1] = Return(None, None)
       /\ GetCalls = <<>>

C9_Witness ==
    /\ Finished
    /\ app_id_or_name_or_url = Some("Bar")
    /\ Listed
    /\ Len(Listing) = 2
    /\ Listing[2].name = "bar"
    /\ outcome[1].kind = "return"

\* C10: every GET answered with a status other than 200 (201 included) is
\* the last step of its call, which raises the server error with the parsed
\* body; and a call returns a pair with a url only after a GET answered 200.
C10_OnlyStatus200Succeeds ==
    /\ \A k \in 1..Len(calls) :
          (IsGet(calls[k]) /\ calls[k].got.connected /\ calls[k].got.status_code # 200) =>
              /\ Finished
              /\ k = Len(calls)
              /\ outcome[1] = Raise(ServerMessage, Json(calls[k].got.text))
    /\ (Finished /\ outcome[1].kind = "return" /\ outcome[1].value[1] # None) =>
          /\ calls # <<>>
          /\ IsGet(calls[Len(calls)])
          /\ calls[Len(calls)].got.connected
          /\ calls[Len(calls)].got.status_code = 200

C10_Witness ==
    /\ Finished
    /\ Listed
    /\ Len(calls) = 4
    /\ IsGet(calls[4])
    /\ calls[4].got.status_code = 201
    /\ outcome[1].kind = "raise"

\* C14: a call makes at most one GET; a call whose local GET was refused
\* ends by raising an error and the local GET stays its only GET, even when
\* listed instances have urls.
C14_AtMostOneGet ==
    /\ Len(GetCalls) <= 1
    /\ (Finished /\ LocalGetRefused) =>
          /\ outcome[1].kind = "raise"
          /\ Len(GetCalls) = 1
          /\ IsGet(calls[1])

C14_Witness ==
    /\ Finished
    /\ LocalGetRefused
    /\ Listed
    /\ Len(Listing) >= 1
    /\ \A k \in 1..Len(Listing) : Listing[k].url # ""
    /\ Len(GetCalls) = 1

\* C11: against an external state that does not change, a call that ends
\* has the outcome (the returned pair or the raised error) of every earlier
\* call of the behaviour that had the same identifier.
C11_Idempotent ==
    (Finished /\ kept # None /\ kept[1].id = app_id_or_name_or_url) =>
        outcome = kept[1].outcome

C11_Witness ==
    /\ Finished
    /\ world # None
    /\ kept # None
    /\ kept[1].id = Some("a")
    /\ app_id_or_name_or_url = Some("a")
    /\ Len(calls) = 4
    /\ outcome[1].kind = "return"
    /\ outcome[1].value[1] = Some("http://x")

\* C12: when a call of _format_input_env_variables returns, every key of
\* the dictionary consists of characters of [0-9a-zA-Z_] only; and a list
\* of entries name=value with distinct non-empty names, one of which has
\* another character, makes the call raise the ValueError.
IsWord(s) == \A k \in 1..Len(s) : SubSeq(s, k, k) \in WordChars
NameOf(env_str) == split(env_str, "=")[1]
IsNameValue(env_str) == Len(split(env_str, "=")) = 2 /\ NameOf(env_str) # ""
C12_OnlyWordNames ==
    (env_pc = "done" /\ env_outcome # None) =>
        /\ env_outcome[1].kind = "return" =>
              \A var_name \in DOMAIN env_outcome[1].value : IsWord(var_name)
        /\ (/\ \A k \in 1..Len(env_list) : IsNameValue(env_list[k])
            /\ \A j, k \in 1..Len(env_list) :
                  j # k => NameOf(env_list[j]) # NameOf(env_list[k])
            /\ \E k \in 1..Len(env_list) : ~IsWord(NameOf(env_list[k])))
           => /\ env_outcome[1].kind = "raise"
              /\ env_outcome[1].error = "ValueError: Environment variable is not a valid name."

\* a step is a call of setup_precision_plugin that began with the strategy's
\* model being the LightningModule m
SetupCalledAt(m) ==
    /\ Len(setup_log') = Len(setup_log) + 1
    /\ model = Some([kind |-> "LightningModule", name |-> m, n |-> 0])
\* the step created a ZeroDDP around m, recorded it in m and made it the model
WrapsNow(m) ==
    /\ \E w \in zeroddps' \ zeroddps :
          /\ zeroddps' = zeroddps \cup {w}
          /\ w.kind = "ZeroDDP" /\ w.name = m
          /\ module_zero'[m] = Some(w)
          /\ model' = Some(w)
    /\ Len(chunk_managers') = Len(chunk_managers) + 1
\* the step created nothing and made the recorded wrapper the model
ReusesNow(m) ==
    /\ zeroddps' = zeroddps
    /\ chunk_managers' = chunk_managers
    /\ module_zero' = module_zero
    /\ model' = module_zero[m]
\* the optimizer checks of lines 217-225 stop the call
ChecksReject ==
    /\ setup_log'[Len(setup_log')].is_training
    /\ Len(optimizers) # 1 \/ optimizers[1] \notin {"CPUAdam", "HybridAdam"}
AtMostOneZeroDDP ==
    \A m \in Modules : Cardinality({w \in zeroddps : w.name = m}) <= 1

\* C13 as stated: every call of setup_precision_plugin that begins with the
\* model being the LightningModule m wraps m when m has no _colossalai_zero
\* yet, and otherwise creates nothing and makes the recorded wrapper the
\* model.
C13_EveryCallWrapsOrReuses ==
    [][\A m \in Modules :
          SetupCalledAt(m) =>
              IF module_zero[m] = None THEN WrapsNow(m) ELSE ReusesNow(m)]_vars

\* C13: a call of setup_precision_plugin that begins with the model being
\* the LightningModule m and is not stopped by the optimizer checks wraps m
\* when m has no _colossalai_zero yet, and otherwise creates nothing and
\* makes the recorded wrapper the model; a call the checks stop creates
\* nothing and leaves the model and the attribute as they were; and no
\* LightningModule ever has two ZeroDDP wrappers.
C13_WrapsAtMostOnce ==
    [][/\ \A m \in Modules :
             SetupCalledAt(m) =>
                 IF ChecksReject
                 THEN /\ zeroddps' = zeroddps
                      /\ chunk_managers' = chunk_managers
                      /\ module_zero' = module_zero
                      /\ model' = model
                 ELSE IF module_zero[m] = None THEN WrapsNow(m) ELSE ReusesNow(m)
       /\ AtMostOneZeroDDP']_vars

C13_Witness ==
    /\ Len(setup_log) = 2
    /\ setup_log[1].result = "wrapped"
    /\ setup_log[2].result = "reused"
    /\ Cardinality(zeroddps) = 1
    /\ Len(chunk_managers) = 1
    /\ model # None
    /\ model[1] \in zeroddps
    /\ module_zero[model[1].name] = model
====
